---- MODULE Spec2Model ----
(***************************************************************************)
(* The plant-identification relay of asyl0/plantnet_backend.                *)
(*                                                                         *)
(* The repository holds four near-duplicate variants of one Express        *)
(* server:                                                                 *)
(*   "earliest"  src/server.js:1-192     (upstream errors surface as 500)  *)
(*   "multi"     src/server.js:194-565   (three size-indexed placeholders) *)
(*   "single"    src/server.js:567-853   (one fixed placeholder)           *)
(*   "part000"   src/unnamed/part_000    (one fixed placeholder)           *)
(* The variant that is deployed is fixed at start-up, like the credential. *)
(*                                                                         *)
(* Text is modelled as a tuple of one-character strings wherever the code  *)
(* looks inside it (content types, file names); messages that the code     *)
(* only copies are plain strings, rendered in ASCII.  Scores are integers  *)
(* in units of 1/10000 (9234 stands for 0.9234).                           *)
(***************************************************************************)
EXTENDS Integers, Sequences, FiniteSets, TLC

(***************************************************************************)
(* Bounds of the model.                                                    *)
(***************************************************************************)
\* Requests that the concurrent specification lets arrive.
NumReq == 2
\* Small uploads have 0..MaxSmallSize bytes.
MaxSmallSize == 3
\* Large uploads have FileSizeLimit .. FileSizeLimit + MaxOver bytes.
MaxOver == 1

Req == 1..NumReq

(***************************************************************************)
(* Text helpers: String.prototype.startsWith, toLowerCase, split/pop and   *)
(* a suffix test for the anchored regular expression of the file filter.   *)
(***************************************************************************)
StartsWith(s, p) == Len(s) >= Len(p) /\ SubSeq(s, 1, Len(p)) = p

EndsWith(s, p) == Len(s) >= Len(p) /\ SubSeq(s, Len(s) - Len(p) + 1, Len(s)) = p

UpperLetters == <<"A","B","C","D","E","F","G","H","I","J","K","L","M",
                  "N","O","P","Q","R","S","T","U","V","W","X","Y","Z">>

LowerLetters == <<"a","b","c","d","e","f","g","h","i","j","k","l","m",
                  "n","o","p","q","r","s","t","u","v","w","x","y","z">>

LowerChar(c) ==
    IF \E i \in 1..Len(UpperLetters) : UpperLetters[i] = c
    THEN LowerLetters[CHOOSE i \in 1..Len(UpperLetters) : UpperLetters[i] = c]
    ELSE c

ToLowerCase(s) == [i \in 1..Len(s) |-> LowerChar(s[i])]

\* name.split('.').pop(): the text after the last dot, the whole text when
\* there is no dot.
SplitPop(s) ==
    LET dots == {i \in 1..Len(s) : s[i] = "."}
    IN  IF dots = {} THEN s
        ELSE LET last == CHOOSE i \in dots : \A j \in dots : j <= i
             IN  SubSeq(s, last + 1, Len(s))

(***************************************************************************)
(* Program constants.                                                      *)
(***************************************************************************)
\* limits.fileSize of the multer configuration.
FileSizeLimit == 10 * 1024 * 1024

IMAGE_PREFIX == <<"i","m","a","g","e","/">>

OCTET_STREAM == <<"a","p","p","l","i","c","a","t","i","o","n","/",
                  "o","c","t","e","t","-","s","t","r","e","a","m">>

IMAGE_JPEG == <<"i","m","a","g","e","/","j","p","e","g">>
IMAGE_PNG  == <<"i","m","a","g","e","/","p","n","g">>
IMAGE_GIF  == <<"i","m","a","g","e","/","g","i","f">>
IMAGE_BMP  == <<"i","m","a","g","e","/","b","m","p">>
IMAGE_WEBP == <<"i","m","a","g","e","/","w","e","b","p">>
TEXT_PLAIN == <<"t","e","x","t","/","p","l","a","i","n">>

\* The alternatives of /\.(jpg|jpeg|png|gif|bmp|webp)$/i.
ImageExtensions ==
    { <<"j","p","g">>, <<"j","p","e","g">>, <<"p","n","g">>,
      <<"g","i","f">>, <<"b","m","p">>, <<"w","e","b","p">> }

Variants == {"earliest", "multi", "single", "part000"}

\* process.env.PLANTNET_API_KEY: unset, set to the empty string, or set.
ApiKeys ==
    { [defined |-> FALSE],
      [defined |-> TRUE, value |-> ""],
      [defined |-> TRUE, value |-> "2b10key"] }

(***************************************************************************)
(* Inputs: the file part of a request.                                     *)
(***************************************************************************)
MimeTypes == {IMAGE_JPEG, IMAGE_PNG, OCTET_STREAM, TEXT_PLAIN}

FileNames ==
    { <<"a",".","j","p","g">>, <<"a",".","j","p","e","g">>,
      <<"a",".","P","N","G">>, <<"a",".","g","i","f">>,
      <<"a",".","b","m","p">>, <<"a",".","w","e","b","p">>,
      <<"a",".","t","x","t">>, <<"j","p","g">> }

Sizes == (0..MaxSmallSize) \cup (FileSizeLimit..(FileSizeLimit + MaxOver))

NoFilePart == [present |-> FALSE]

Uploads ==
    {NoFilePart} \cup
    [present : {TRUE}, originalname : FileNames, mimetype : MimeTypes, size : Sizes]

(***************************************************************************)
(* Inputs: how the upstream answers one POST.                              *)
(***************************************************************************)
CommonNamesOptions == { <<>>, <<"Dog rose">>, <<"Dog rose", "Briar">>, <<"">> }

DescriptionOptions == { "", "A wild rose." }

ScientificNames == { "Rosa canina" }

\* results[i].species, with commonNames and description each optional.
SpeciesOptions ==
    [scientificNameWithoutAuthor : ScientificNames]
    \cup [scientificNameWithoutAuthor : ScientificNames,
          commonNames : CommonNamesOptions]
    \cup [scientificNameWithoutAuthor : ScientificNames,
          description : DescriptionOptions]
    \cup [scientificNameWithoutAuthor : ScientificNames,
          commonNames : CommonNamesOptions, description : DescriptionOptions]

GoodImage == [url |-> [o |-> "https://bs.plantnet.org/image/o/1",
                       m |-> "https://bs.plantnet.org/image/m/1",
                       s |-> "https://bs.plantnet.org/image/s/1"]]

SecondImage == [url |-> [m |-> "https://bs.plantnet.org/image/m/9"]]

\* An image entry without its url object.
BareImage == [author |-> "anonymous"]

ImagesOptions == { <<>>, <<GoodImage, SecondImage>>, <<BareImage>> }

\* 0.9234, and a score outside [0,1].
Scores == { 9234, 15000 }

\* One entry of results: species and images are each optional.
Matches ==
    [score : Scores]
    \cup [score : Scores, species : SpeciesOptions]
    \cup [score : Scores, images : ImagesOptions]
    \cup [score : Scores, species : SpeciesOptions, images : ImagesOptions]

LaterMatch ==
    [score |-> 1200,
     species |-> [scientificNameWithoutAuthor |-> "Quercus robur",
                  commonNames |-> <<"Oak">>, description |-> "A tree."],
     images |-> <<[url |-> [m |-> "https://bs.plantnet.org/image/m/2"]]>>]

ResultLists ==
    { <<>> }
    \cup { <<m>> : m \in Matches }
    \cup { <<m, LaterMatch>> : m \in { x \in Matches : "images" \notin DOMAIN x } }

\* The body of a 2xx answer: without results, or with a list of results.
Payloads == { [language |-> "en"] } \cup [results : ResultLists]

ErrorBodies == { [message |-> "Unauthorized"], [error |-> "Internal"] }

\* What happens to the POST: it times out, the network fails, or an HTTP
\* answer arrives, with or without a body.
UpstreamEvents ==
    { [kind |-> "timeout"], [kind |-> "network"] }
    \cup [kind : {"http"}, status : {200}, data : Payloads]
    \cup [kind : {"http"}, status : {200, 401, 500}]
    \cup [kind : {"http"}, status : {401, 500}, data : ErrorBodies]

(***************************************************************************)
(* multer: upload.single('image') with the configured filter and limit.    *)
(***************************************************************************)
\* fileFilter of the variant: TRUE when the file is accepted.
FileFilter(v, file) ==
    LET isImageMime == StartsWith(file.mimetype, IMAGE_PREFIX)
        isFlutterImage ==
            /\ file.mimetype = OCTET_STREAM
            /\ \E e \in ImageExtensions :
                   EndsWith(ToLowerCase(file.originalname), <<".">> \o e)
    IN  IF v = "multi" THEN isImageMime \/ isFlutterImage ELSE isImageMime

FilterError == [multer |-> FALSE, code |-> "", message |-> "Only images are allowed"]

LimitError == [multer |-> TRUE, code |-> "LIMIT_FILE_SIZE", message |-> "File too large"]

\* The middleware's outcome: no file part (req.file stays undefined), an
\* error handed to next(err), or req.file.  The filter runs when the part's
\* headers arrive, before the bytes are counted against the limit.
MulterSingle(v, u) ==
    IF ~u.present THEN [kind |-> "nofile"]
    ELSE IF ~FileFilter(v, u) THEN [kind |-> "error", error |-> FilterError]
    ELSE IF u.size > FileSizeLimit THEN [kind |-> "error", error |-> LimitError]
    ELSE [kind |-> "file",
          file |-> [originalname |-> u.originalname,
                    mimetype |-> u.mimetype, size |-> u.size]]

\* The error-handling middleware.
ErrorMiddleware(error) ==
    IF error.multer /\ error.code = "LIMIT_FILE_SIZE"
    THEN [status |-> 400,
          body |-> [success |-> FALSE, error |-> "File too large. Maximum size: 10MB"]]
    ELSE [status |-> 500,
          body |-> [success |-> FALSE,
                    error |-> IF error.message # "" THEN error.message
                              ELSE "Internal server error"]]


(***************************************************************************)
(* axios.post(PLANTNET_API_URL, formData, {timeout: 30000, ...}).          *)
(***************************************************************************)
\* How the awaited promise settles: it resolves for a 2xx status and
\* rejects for a timeout, a network failure or any other status.
AxiosSettle(ev) ==
    IF ev.kind = "timeout"
    THEN [kind |-> "rejected",
          error |-> [code |-> "ECONNABORTED", message |-> "timeout of 30000ms exceeded"]]
    ELSE IF ev.kind = "network"
    THEN [kind |-> "rejected",
          error |-> [code |-> "ENOTFOUND", message |-> "getaddrinfo ENOTFOUND"]]
    ELSE IF ev.status >= 200 /\ ev.status < 300
    THEN [kind |-> "resolved", response |-> [x \in DOMAIN ev \ {"kind"} |-> ev[x]]]
    ELSE [kind |-> "rejected",
          error |-> [code |-> "ERR_BAD_RESPONSE",
                     message |-> "Request failed with status code " \o ToString(ev.status),
                     response |-> [x \in DOMAIN ev \ {"kind"} |-> ev[x]]]]

\* The posts one axios.post invocation makes.
PostsTwice(form) == <<form, form>>

FormsPosted(form) == <<form>>

(***************************************************************************)
(* The POST /identify handler.                                             *)
(***************************************************************************)
\* !!PLANTNET_API_KEY: a string that is set and not empty.
HasApiKey_Defined(key) == key.defined

HasApiKey(key) == key.defined /\ key.value # ""

\* Variants that use FormData without requiring the form-data package: the
\* name resolves to whatever the runtime provides as a global.
UsesGlobalFormData(v) == v \in {"earliest", "part000"}

\* The content type forwarded with the image; the "multi" variant corrects
\* the generic binary type from the file name's extension.  (The first
\* definition compares the extension without lower-casing it.)
ContentType_CaseSensitive(v, file) ==
    IF v = "multi" /\ file.mimetype = OCTET_STREAM
    THEN LET ext == SplitPop(file.originalname)
         IN  CASE ext \in {<<"j","p","g">>, <<"j","p","e","g">>} -> IMAGE_JPEG
               [] ext = <<"p","n","g">> -> IMAGE_PNG
               [] ext = <<"g","i","f">> -> IMAGE_GIF
               [] ext = <<"b","m","p">> -> IMAGE_BMP
               [] ext = <<"w","e","b","p">> -> IMAGE_WEBP
               [] OTHER -> IMAGE_JPEG
    ELSE file.mimetype

ContentType(v, file) ==
    IF v = "multi" /\ file.mimetype = OCTET_STREAM
    THEN LET ext == ToLowerCase(SplitPop(file.originalname))
         IN  CASE ext \in {<<"j","p","g">>, <<"j","p","e","g">>} -> IMAGE_JPEG
               [] ext = <<"p","n","g">> -> IMAGE_PNG
               [] ext = <<"g","i","f">> -> IMAGE_GIF
               [] ext = <<"b","m","p">> -> IMAGE_BMP
               [] ext = <<"w","e","b","p">> -> IMAGE_WEBP
               [] OTHER -> IMAGE_JPEG
    ELSE file.mimetype

\* The 'images' part appended to the form.
ImagesPart(v, file) ==
    [filename |-> IF file.originalname # <<>> THEN file.originalname
                  ELSE <<"p","l","a","n","t","_","i","m","a","g","e",".","j","p","g">>,
     contentType |-> ContentType(v, file),
     size |-> file.size]

\* mockPlants of the "multi" variant (JavaScript indexes it from 0).
mockPlants ==
    << [name |-> "Zhasyl zhapyraq", scientific_name |-> "Ficus elastica",
        description |-> "mock 0: well suited to growing at home",
        benefits |-> "mock 0: cleans the air, reduces stress",
        warnings |-> "mock 0: keep away from children",
        confidence |-> 9200, image_url |-> ""],
       [name |-> "Guldi osimdik", scientific_name |-> "Rosa canina",
        description |-> "mock 1: known for its beautiful flowers",
        benefits |-> "mock 1: beautiful flowers, cleans the air",
        warnings |-> "mock 1: has thorns, be careful",
        confidence |-> 8800, image_url |-> ""],
       [name |-> "Derekteme osimdik", scientific_name |-> "Monstera deliciosa",
        description |-> "mock 2: known for its large leaves",
        benefits |-> "mock 2: cleans the air, looks beautiful",
        warnings |-> "mock 2: leaves may be poisonous",
        confidence |-> 8500, image_url |-> ""] >>

\* mockPlantInfo of the "single" and "part000" variants.
singleMockPlantInfo ==
    [name |-> "Zhasyl osimdik", scientific_name |-> "Plantus Greenus",
     description |-> "mock: widespread in nature",
     benefits |-> "mock: cleans the air, gives oxygen",
     warnings |-> "mock: some plants may cause allergy",
     confidence |-> 8500, image_url |-> ""]

\* fileSize % mockPlants.length
mockIndex_Shifted(fileSize) == (fileSize + 1) % Len(mockPlants)

mockIndex(fileSize) == fileSize % Len(mockPlants)

\* The placeholder response of the variants that have one.  (The first
\* definition leaves the note out.)
MockResponse_NoNote(v, file) ==
    [status |-> 200,
     body |-> [success |-> TRUE,
               result |-> IF v = "multi" THEN mockPlants[mockIndex(file.size) + 1]
                          ELSE singleMockPlantInfo]]

MockResponse(v, file) ==
    IF v = "multi"
    THEN [status |-> 200,
          body |-> [success |-> TRUE,
                    result |-> mockPlants[mockIndex(file.size) + 1],
                    note |-> "Demo data (PlantNet API strict requirements)"]]
    ELSE [status |-> 200,
          body |-> [success |-> TRUE,
                    result |-> singleMockPlantInfo,
                    note |-> "Demo data (PlantNet API unavailable)"]]

\* errorMessage of the "earliest" variant's catch block.
ErrorMessage(error) ==
    IF "response" \in DOMAIN error
    THEN "API error: " \o ToString(error.response.status) \o " - " \o
         (IF "data" \in DOMAIN error.response
             /\ "message" \in DOMAIN error.response.data
             /\ error.response.data.message # ""
          THEN error.response.data.message ELSE "Unknown error")
    ELSE IF "code" \in DOMAIN error /\ error.code = "ECONNABORTED"
    THEN "Timed out waiting for the server"
    ELSE IF error.message # "" THEN error.message
    ELSE "An error occurred while identifying the plant"

\* The catch block: whatever was thrown inside the try ends here.
CatchBlock(v, file, error) ==
    IF v = "earliest"
    THEN [status |-> 500, body |-> [success |-> FALSE, error |-> ErrorMessage(error)]]
    ELSE MockResponse(v, file)

\* The else branch taken when the payload has no match.
EmptyResult(v, file) ==
    IF v = "earliest"
    THEN [status |-> 200, body |-> [success |-> FALSE, error |-> "Plant not recognized"]]
    ELSE MockResponse(v, file)

\* response.data && response.data.results && response.data.results.length > 0
HasResults(response) ==
    /\ "data" \in DOMAIN response
    /\ "results" \in DOMAIN response.data
    /\ Len(response.data.results) > 0

\* Building plantInfo dereferences result.species and, when the match has
\* images, result.images[0].url: a TypeError when either is undefined.
PlantInfoThrows(result) ==
    \/ "species" \notin DOMAIN result
    \/ /\ "images" \in DOMAIN result
       /\ Len(result.images) > 0
       /\ "url" \notin DOMAIN result.images[1]

PlantInfo(result) ==
    LET species == result.species
    IN  [name |-> IF "commonNames" \in DOMAIN species /\ Len(species.commonNames) > 0
                  THEN species.commonNames[1]
                  ELSE species.scientificNameWithoutAuthor,
         scientific_name |-> species.scientificNameWithoutAuthor,
         description |-> IF "description" \in DOMAIN species /\ species.description # ""
                         THEN species.description
                         ELSE "Description unavailable",
         benefits |-> "Information about the plant's benefits. Consult a doctor before use.",
         warnings |-> "Be careful when using plants. Make sure the species is identified correctly.",
         confidence |-> result.score,
         image_url |-> IF "images" \in DOMAIN result /\ Len(result.images) > 0
                       THEN result.images[1].url.m
                       ELSE ""]

TypeError == [message |-> "Cannot read properties of undefined"]

FormDataError == [message |-> "FormData is not defined"]

\* The handler up to its await: it answers at once, or posts the form.
IdentifyStart_KeyFirst(v, key, fdOk, mo) ==
    IF ~HasApiKey(key)
    THEN [kind |-> "respond",
          response |-> [status |-> 500,
                        body |-> [success |-> FALSE,
                                  error |-> "PlantNet API key is not configured"]]]
    ELSE IF mo.kind = "nofile"
    THEN [kind |-> "respond",
          response |-> [status |-> 400,
                        body |-> [success |-> FALSE, error |-> "Image not found"]]]
    ELSE IF UsesGlobalFormData(v) /\ ~fdOk
    THEN [kind |-> "respond", response |-> CatchBlock(v, mo.file, FormDataError)]
    ELSE [kind |-> "post", form |-> ImagesPart(v, mo.file)]

IdentifyStart(v, key, fdOk, mo) ==
    IF mo.kind = "nofile"
    THEN [kind |-> "respond",
          response |-> [status |-> 400,
                        body |-> [success |-> FALSE, error |-> "Image not found"]]]
    ELSE IF ~HasApiKey(key)
    THEN [kind |-> "respond",
          response |-> [status |-> 500,
                        body |-> [success |-> FALSE,
                                  error |-> "PlantNet API key is not configured"]]]
    ELSE IF UsesGlobalFormData(v) /\ ~fdOk
    THEN [kind |-> "respond", response |-> CatchBlock(v, mo.file, FormDataError)]
    ELSE [kind |-> "post", form |-> ImagesPart(v, mo.file)]

\* The handler after its await: the response for a settled upstream call.
IdentifyFinish(v, file, settled) ==
    IF settled.kind = "rejected" THEN CatchBlock(v, file, settled.error)
    ELSE IF HasResults(settled.response)
    THEN LET result == settled.response.data.results[1]
         IN  IF PlantInfoThrows(result) THEN CatchBlock(v, file, TypeError)
             ELSE [status |-> 200,
                   body |-> [success |-> TRUE, result |-> PlantInfo(result)]]
    ELSE EmptyResult(v, file)

(***************************************************************************)
(* GET /health (the timestamp of the body is left out).                    *)
(***************************************************************************)
HealthResponse_Defined(key) ==
    [status |-> 200,
     body |-> [status |-> "OK", message |-> "Server is running",
               hasApiKey |-> key.defined]]

HealthResponse(key) ==
    [status |-> 200,
     body |-> [status |-> "OK", message |-> "Server is running",
               hasApiKey |-> HasApiKey(key)]]

VARIABLES
    variant,            \* which variant of the server is running
    PLANTNET_API_KEY,   \* the credential read once at start-up
    formDataOk,         \* whether the FormData in scope has the form-data interface
    pc,                 \* pc[r]: where request r is
    upload,             \* upload[r]: the file part request r carries
    multerOut,          \* multerOut[r]: what upload.single('image') handed on
    outbound,           \* outbound[r]: the forms request r posted to the upstream
    reply,              \* reply[r]: how the upstream call of request r settled
    responses,          \* responses[r]: the HTTP responses sent for request r
    health              \* the responses of GET /health, the last one kept

vars == <<variant, PLANTNET_API_KEY, formDataOk, pc, upload, multerOut,
          outbound, reply, responses, health>>

None == [kind |-> "none"]

\* The FormData that the variant's module scope resolves to either is the
\* form-data package (required by "multi" and "single") or is the runtime's
\* global, which may or may not offer the form-data interface.
FormDataBindings(v) == IF UsesGlobalFormData(v) THEN BOOLEAN ELSE {TRUE}

Init ==
    /\ variant \in Variants
    /\ PLANTNET_API_KEY \in ApiKeys
    /\ formDataOk \in FormDataBindings(variant)
    /\ pc = [r \in Req |-> "idle"]
    /\ upload = [r \in Req |-> NoFilePart]
    /\ multerOut = [r \in Req |-> None]
    /\ outbound = [r \in Req |-> <<>>]
    /\ reply = [r \in Req |-> None]
    /\ responses = [r \in Req |-> <<>>]
    /\ health = <<>>

\* A POST /identify request arrives carrying upload u.
Receive(r, u) ==
    /\ pc[r] = "idle"
    /\ pc' = [pc EXCEPT ![r] = "multer"]
    /\ upload' = [upload EXCEPT ![r] = u]
    /\ UNCHANGED <<variant, PLANTNET_API_KEY, formDataOk, multerOut,
                   outbound, reply, responses, health>>

\* upload.single('image') parses the request and calls next() or next(err).
UploadSingle(r) ==
    /\ pc[r] = "multer"
    /\ multerOut' = [multerOut EXCEPT ![r] = MulterSingle(variant, upload[r])]
    /\ pc' = [pc EXCEPT ![r] = IF multerOut'[r].kind = "error" THEN "errorMw"
                                ELSE "handler"]
    /\ UNCHANGED <<variant, PLANTNET_API_KEY, formDataOk, upload,
                   outbound, reply, responses, health>>

\* The error-handling middleware answers a request that multer refused.
HandleError(r) ==
    /\ pc[r] = "errorMw"
    /\ responses' = [responses EXCEPT
                        ![r] = Append(@, ErrorMiddleware(multerOut[r].error))]
    /\ pc' = [pc EXCEPT ![r] = "responded"]
    /\ UNCHANGED <<variant, PLANTNET_API_KEY, formDataOk, upload, multerOut,
                   outbound, reply, health>>

\* The handler runs up to its await.
Identify(r) ==
    /\ pc[r] = "handler"
    /\ LET start == IdentifyStart(variant, PLANTNET_API_KEY, formDataOk, multerOut[r])
       IN  IF start.kind = "post"
           THEN /\ outbound' = [outbound EXCEPT ![r] = @ \o FormsPosted(start.form)]
                /\ pc' = [pc EXCEPT ![r] = "awaiting"]
                /\ UNCHANGED responses
           ELSE /\ responses' = [responses EXCEPT ![r] = Append(@, start.response)]
                /\ pc' = [pc EXCEPT ![r] = "responded"]
                /\ UNCHANGED outbound
    /\ UNCHANGED <<variant, PLANTNET_API_KEY, formDataOk, upload, multerOut,
                   reply, health>>

\* The upstream call of request r settles.
UpstreamSettles(r, ev) ==
    /\ pc[r] = "awaiting"
    /\ reply' = [reply EXCEPT ![r] = AxiosSettle(ev)]
    /\ pc' = [pc EXCEPT ![r] = "resumed"]
    /\ UNCHANGED <<variant, PLANTNET_API_KEY, formDataOk, upload, multerOut,
                   outbound, responses, health>>

\* The handler resumes after its await and answers.  (The first definition
\* keeps the uploaded file in one place shared by all requests.)
IdentifyResume_SharedFile(r) ==
    /\ pc[r] = "resumed"
    /\ LET holders == { q \in Req : multerOut[q].kind = "file" }
           shared == CHOOSE q \in holders : \A p \in holders : q <= p
       IN  responses' = [responses EXCEPT
                            ![r] = Append(@, IdentifyFinish(variant, multerOut[shared].file,
                                                            reply[r]))]
    /\ pc' = [pc EXCEPT ![r] = "responded"]
    /\ UNCHANGED <<variant, PLANTNET_API_KEY, formDataOk, upload, multerOut,
                   outbound, reply, health>>

IdentifyResume(r) ==
    /\ pc[r] = "resumed"
    /\ responses' = [responses EXCEPT
                        ![r] = Append(@, IdentifyFinish(variant, multerOut[r].file, reply[r]))]
    /\ pc' = [pc EXCEPT ![r] = "responded"]
    /\ UNCHANGED <<variant, PLANTNET_API_KEY, formDataOk, upload, multerOut,
                   outbound, reply, health>>

\* GET /health.
Health ==
    /\ health' = <<HealthResponse(PLANTNET_API_KEY)>>
    /\ UNCHANGED <<variant, PLANTNET_API_KEY, formDataOk, pc, upload, multerOut,
                   outbound, reply, responses>>

\* One request at a time, with every upload and every upstream answer.
Next ==
    \/ \E u \in Uploads : Receive(1, u)
    \/ UploadSingle(1)
    \/ HandleError(1)
    \/ Identify(1)
    \/ \E ev \in UpstreamEvents : UpstreamSettles(1, ev)
    \/ IdentifyResume(1)
    \/ Health

Spec == Init /\ [][Next]_vars

(***************************************************************************)
(* Concurrent requests.  Express starts the middleware chain of a request  *)
(* when it arrives, and every await hands the event loop to the callbacks  *)
(* of the other requests, so the steps of different requests interleave    *)
(* freely.  The uploads and upstream answers are a selection that reaches  *)
(* every branch of the handler.                                            *)
(***************************************************************************)
ConcUploads ==
    { NoFilePart,
      [present |-> TRUE, originalname |-> <<"a",".","t","x","t">>,
       mimetype |-> TEXT_PLAIN, size |-> 1],
      [present |-> TRUE, originalname |-> <<"a",".","j","p","g">>,
       mimetype |-> IMAGE_JPEG, size |-> 1],
      [present |-> TRUE, originalname |-> <<"a",".","P","N","G">>,
       mimetype |-> OCTET_STREAM, size |-> 2] }

ConcEvents ==
    { [kind |-> "timeout"],
      [kind |-> "http", status |-> 200, data |-> [results |-> <<>>]],
      [kind |-> "http", status |-> 200,
       data |-> [results |-> << [score |-> 9234,
                                 species |-> [scientificNameWithoutAuthor |-> "Rosa canina",
                                              commonNames |-> <<"Dog rose">>],
                                 images |-> <<GoodImage, SecondImage>>] >>]] }

\* The steps the server and the upstream take for request r once it arrived.
\* IdentifyResume is the continuation of the handler's await in both its
\* outcomes: the try block after a fulfilment, the catch block after a
\* rejection.
ServerStep_NoCatch(r) ==
    \/ UploadSingle(r)
    \/ HandleError(r)
    \/ Identify(r)
    \/ \E ev \in ConcEvents : UpstreamSettles(r, ev)
    \/ reply[r].kind = "resolved" /\ IdentifyResume(r)

ServerStep(r) ==
    \/ UploadSingle(r)
    \/ HandleError(r)
    \/ Identify(r)
    \/ \E ev \in ConcEvents : UpstreamSettles(r, ev)
    \/ IdentifyResume(r)

NextConc ==
    \E r \in Req :
        \/ \E u \in ConcUploads : Receive(r, u)
        \/ ServerStep(r)

SpecConc == Init /\ [][NextConc]_vars

\* The event loop runs a callback whenever one is ready, and the 30 s timeout
\* of axios.post settles every upstream call.
FairSpecConc == SpecConc /\ WF_vars(\E r \in Req : ServerStep(r))

(***************************************************************************)
(* Vocabulary of the properties.                                           *)
(***************************************************************************)
Responded(r) == pc[r] = "responded" /\ Len(responses[r]) >= 1

Response(r) == responses[r][1]

UpstreamCalls(r) == Len(outbound[r])

\* The credential is absent or empty.
CredentialMissing == ~PLANTNET_API_KEY.defined \/ PLANTNET_API_KEY.value = ""

\* The documented predicate on uploads: an image content type, or the
\* generic binary type with an image file name.
DocumentedImageType(u) ==
    \/ StartsWith(u.mimetype, IMAGE_PREFIX)
    \/ /\ u.mimetype = OCTET_STREAM
       /\ \E e \in ImageExtensions : EndsWith(ToLowerCase(u.originalname), <<".">> \o e)

ErrorReply(r, code) ==
    /\ Response(r).status = code
    /\ Response(r).body.success = FALSE

\* The upstream call of r failed or found nothing.
UpstreamFailedOrEmpty(r) ==
    \/ reply[r].kind = "rejected"
    \/ reply[r].kind = "resolved" /\ ~HasResults(reply[r].response)

\* The species of the canonical placeholder set, by byte length mod 3.
CanonicalSpecies(n) ==
    CASE n % 3 = 0 -> "Ficus elastica"
      [] n % 3 = 1 -> "Rosa canina"
      [] n % 3 = 2 -> "Monstera deliciosa"

PlaceholderServed(r) == Responded(r) /\ "note" \in DOMAIN Response(r).body

FixedPlaceholders == { mockPlants[i] : i \in 1..Len(mockPlants) } \cup { singleMockPlantInfo }

(***************************************************************************)
(* C1-C10.                                                                 *)
(***************************************************************************)
\* C1: an upload whose content type is neither an image type nor the binary
\* type with an image file name is answered 400 with success:false, and the
\* upstream is not contacted.
C1_UnsupportedTypeIs400 ==
    \A r \in Req :
        (Responded(r) /\ upload[r].present /\ ~DocumentedImageType(upload[r]))
            => (ErrorReply(r, 400) /\ UpstreamCalls(r) = 0)

\* C2: an upload of more than 10 MiB is answered 400 with success:false and
\* no upstream call has been made for it.
C2_TooLargeIs400 ==
    \A r \in Req :
        (Responded(r) /\ upload[r].present /\ upload[r].size > 10 * 1024 * 1024)
            => (ErrorReply(r, 400) /\ UpstreamCalls(r) = 0)

\* C3: with the credential absent or empty, a request whose file passed the
\* upload filter is answered 500 with success:false, and no upstream call is
\* ever made for it.
C3_MissingCredentialIs500 ==
    \A r \in Req :
        CredentialMissing =>
            /\ UpstreamCalls(r) = 0
            /\ (Responded(r) /\ multerOut[r].kind = "file")
                   => (ErrorReply(r, 500) /\ Len(responses[r]) = 1)

C3_Witness ==
    \E r \in Req :
        /\ PLANTNET_API_KEY = [defined |-> TRUE, value |-> ""]
        /\ Responded(r)
        /\ multerOut[r].kind = "file"
        /\ Response(r).status = 500

\* C4: a 4xx or 5xx answer is given only for a local validation or
\* configuration failure and only when no upstream call was attempted; once
\* the call has been issued the status is 200.
C4_ErrorStatusOnlyBeforeUpstream ==
    \A r \in Req :
        (Len(responses[r]) >= 1 /\ Response(r).status >= 400)
            => /\ UpstreamCalls(r) = 0
               /\ \/ multerOut[r].kind \in {"nofile", "error"}
                  \/ CredentialMissing

C6_PlaceholderIsSizeIndexed ==
    \A r \in Req :
        PlaceholderServed(r)
            => Response(r).body.result.scientific_name = CanonicalSpecies(upload[r].size)

\* C6 as amended: the placeholder served is fixed by the variant and the byte
\* length alone: element (byte length mod 3) of the three-placeholder set in
\* the multi-placeholder variant, the one record "Plantus Greenus" in the
\* single-placeholder variants, on the zero-match path and on the error path.
C6_PlaceholderByVariantAndSize ==
    \A r \in Req :
        PlaceholderServed(r)
            => /\ variant \in {"multi", "single", "part000"}
               /\ variant = "multi"
                      => /\ Response(r).body.result \in { mockPlants[i] : i \in 1..3 }
                         /\ Response(r).body.result.scientific_name
                                = CanonicalSpecies(upload[r].size)
               /\ variant \in {"single", "part000"}
                      => Response(r).body.result = singleMockPlantInfo

C6_Witness ==
    \E r \in Req :
        /\ variant = "multi"
        /\ PlaceholderServed(r)
        /\ reply[r].kind = "rejected"
        /\ upload[r].mimetype = OCTET_STREAM
        /\ upload[r].size = 10 * 1024 * 1024
        /\ Response(r).body.result.scientific_name = "Rosa canina"

\* C7: when the upstream answers 2xx with at least one match, the response is
\* 200 with success:true, the first match's scientific name and its score
\* unmodified.
C7_FirstMatchPassedThrough ==
    \A r \in Req :
        (Responded(r) /\ reply[r].kind = "resolved" /\ HasResults(reply[r].response))
            => LET first == reply[r].response.data.results[1]
               IN  /\ Response(r).status = 200
                   /\ Response(r).body.success = TRUE
                   /\ Response(r).body.result.confidence = first.score
                   /\ "species" \in DOMAIN first
                          => Response(r).body.result.scientific_name
                                 = first.species.scientificNameWithoutAuthor

\* C8: a request without a file part is answered 400 with success:false and
\* the upstream is never contacted, whether or not the credential is set.
C8_MissingFileIs400 ==
    \A r \in Req :
        (pc[r] # "idle" /\ ~upload[r].present)
            => /\ UpstreamCalls(r) = 0
               /\ Responded(r) => (ErrorReply(r, 400) /\ Len(responses[r]) = 1)

C8_Witness ==
    \E r \in Req :
        /\ CredentialMissing
        /\ Responded(r)
        /\ ~upload[r].present
        /\ Response(r).status = 400

\* C9: GET /health answers status "OK" with hasApiKey true exactly when the
\* credential is a non-empty string, in every state, and calls no upstream.
C9_HealthReportsCredential ==
    /\ [](health # <<>> =>
            /\ Len(health) = 1
            /\ health[1].status = 200
            /\ health[1].body.status = "OK"
            /\ health[1].body.hasApiKey = ~CredentialMissing)
    /\ [][Health => outbound' = outbound]_vars

C9_Witness ==
    /\ health # <<>>
    /\ PLANTNET_API_KEY.defined
    /\ health[1].body.hasApiKey = TRUE
    /\ \E r \in Req : reply[r].kind = "rejected"

\* C10: a request makes at most one upstream call, none when it is refused
\* by validation or by the credential check.
C10_AtMostOneUpstreamCall ==
    \A r \in Req :
        /\ UpstreamCalls(r) <= 1
        /\ (multerOut[r].kind \in {"nofile", "error"} \/ CredentialMissing)
               => UpstreamCalls(r) = 0

C10_Witness ==
    \E r \in Req :
        /\ Responded(r)
        /\ reply[r].kind = "rejected"
        /\ UpstreamCalls(r) = 1

(***************************************************************************)
(* C11-C19.                                                                *)
(***************************************************************************)
\* A 200 answer that carries a result record.
ResultServed(r) ==
    /\ Len(responses[r]) >= 1
    /\ Response(r).status = 200
    /\ "result" \in DOMAIN Response(r).body

\* C11: the upstream is called only for a request whose upload was validated
\* and whose credential check passed, and a 200 answer carrying a result is
\* sent only after the upstream call of that request has settled (matched,
\* empty or failed).
C11_ResultOnlyAfterUpstream ==
    \A r \in Req :
        /\ UpstreamCalls(r) >= 1
               => (multerOut[r].kind = "file" /\ ~CredentialMissing)
        /\ reply[r].kind # "none" => UpstreamCalls(r) = 1
        /\ ResultServed(r)
               => (UpstreamCalls(r) = 1 /\ reply[r].kind \in {"resolved", "rejected"})

\* C12: every request that arrived is eventually answered, and it is answered
\* exactly once: no request has two responses, and a request is finished
\* exactly when it has one.
C12_ExactlyOneResponse ==
    /\ [](\A r \in Req :
             /\ Len(responses[r]) <= 1
             /\ pc[r] = "responded" <=> Len(responses[r]) = 1)
    /\ \A r \in Req : (pc[r] # "idle") ~> (pc[r] = "responded")

C12_Witness ==
    /\ variant = "multi"
    /\ Responded(1) /\ reply[1].kind = "rejected" /\ Len(responses[1]) = 1
    /\ Responded(2) /\ multerOut[2].kind = "error" /\ Len(responses[2]) = 1

\* The response computed from what request r alone brought: its upload and
\* the outcome of its own upstream call, under the start-up configuration.
OwnOutcome(r) ==
    LET mo == MulterSingle(variant, upload[r])
    IN  IF mo.kind = "error" THEN ErrorMiddleware(mo.error)
        ELSE LET start == IdentifyStart(variant, PLANTNET_API_KEY, formDataOk, mo)
             IN  IF start.kind = "respond" THEN start.response
                 ELSE IdentifyFinish(variant, mo.file, reply[r])

\* The per-request state of q.
OwnState(q) == <<pc[q], upload[q], multerOut[q], outbound[q], reply[q], responses[q]>>

\* C13: under every interleaving of concurrent requests, the response of a
\* request is the one its own upload, the credential and its own upstream
\* outcome determine; two requests that brought the same upload and met the
\* same upstream outcome get the same response; a step of one request leaves
\* the state of every other request, the credential and the variant as they
\* were.
C13_RequestsIndependent ==
    /\ [](\A r \in Req : Responded(r) => responses[r] = <<OwnOutcome(r)>>)
    /\ [](\A r, q \in Req :
             (Responded(r) /\ Responded(q)
                 /\ upload[r] = upload[q] /\ reply[r] = reply[q])
                 => Response(r) = Response(q))
    /\ [][/\ PLANTNET_API_KEY' = PLANTNET_API_KEY
          /\ variant' = variant
          /\ \A r, q \in Req :
                 (r # q /\ pc'[r] # pc[r]) => OwnState(q)' = OwnState(q)]_vars

C13_Witness ==
    /\ variant = "multi"
    /\ Responded(1) /\ upload[1].present /\ upload[1].size = 1
    /\ reply[1].kind = "rejected"
    /\ Response(1).body.result.scientific_name = "Rosa canina"
    /\ Responded(2) /\ upload[2].present /\ upload[2].size = 2
    /\ reply[2].kind = "rejected"
    /\ Response(2).body.result.scientific_name = "Monstera deliciosa"

\* C14: among the answers with status 200 and success:true, the note is
\* present exactly when the result is a placeholder record; an answer built
\* from an upstream match carries no note; with or without the note the
\* status is 200 and success is true.
C14_NoteIffPlaceholder ==
    \A r \in Req :
        /\ (Len(responses[r]) >= 1 /\ Response(r).status = 200
                /\ Response(r).body.success = TRUE)
               => /\ "result" \in DOMAIN Response(r).body
                  /\ "note" \in DOMAIN Response(r).body
                         <=> Response(r).body.result \in FixedPlaceholders
        /\ (Len(responses[r]) >= 1 /\ "note" \in DOMAIN Response(r).body)
               => (Response(r).status = 200 /\ Response(r).body.success = TRUE)
        /\ (Responded(r) /\ reply[r].kind = "resolved" /\ HasResults(reply[r].response)
                /\ ~PlantInfoThrows(reply[r].response.data.results[1]))
               => /\ "note" \notin DOMAIN Response(r).body
                  /\ Response(r).body.result \notin FixedPlaceholders

C14_Witness ==
    \E r \in Req :
        /\ variant = "multi"
        /\ Responded(r)
        /\ reply[r].kind = "resolved" /\ ~HasResults(reply[r].response)
        /\ Response(r).status = 200 /\ Response(r).body.success = TRUE
        /\ Response(r).body.result \in FixedPlaceholders
        /\ "note" \in DOMAIN Response(r).body

\* The content type the documented table gives a file name, by its
\* extension without regard to case.
TypeOfExtension(name) ==
    LET lower == ToLowerCase(name)
    IN  IF EndsWith(lower, <<".","j","p","g">>) \/ EndsWith(lower, <<".","j","p","e","g">>)
        THEN IMAGE_JPEG
        ELSE IF EndsWith(lower, <<".","p","n","g">>) THEN IMAGE_PNG
        ELSE IF EndsWith(lower, <<".","g","i","f">>) THEN IMAGE_GIF
        ELSE IF EndsWith(lower, <<".","b","m","p">>) THEN IMAGE_BMP
        ELSE IF EndsWith(lower, <<".","w","e","b","p">>) THEN IMAGE_WEBP
        ELSE <<>>

\* C15: the content type forwarded to the upstream is the declared one when
\* that starts with "image/", and the one inferred from the file name's
\* extension when the declared one is the generic binary type; every
\* forwarded content type starts with "image/" and none is the generic
\* binary type.
C15_ForwardedTypeIsImage ==
    \A r \in Req :
        UpstreamCalls(r) >= 1
            => LET sent == outbound[r][1].contentType
                   u == upload[r]
               IN  /\ StartsWith(sent, IMAGE_PREFIX)
                   /\ sent # OCTET_STREAM
                   /\ StartsWith(u.mimetype, IMAGE_PREFIX) => sent = u.mimetype
                   /\ u.mimetype = OCTET_STREAM => sent = TypeOfExtension(u.originalname)

C15_Witness ==
    \E r \in Req :
        /\ UpstreamCalls(r) = 1
        /\ upload[r].mimetype = OCTET_STREAM
        /\ upload[r].originalname = <<"a",".","P","N","G">>
        /\ outbound[r][1].contentType = IMAGE_PNG

\* The upstream call of r was answered 2xx with at least one match.
Matched(r) == Responded(r) /\ reply[r].kind = "resolved" /\ HasResults(reply[r].response)

FirstMatch(r) == reply[r].response.data.results[1]

\* C16: when the payload has at least one match, result.name is the first
\* declared common name of the first match if it declares any and its
\* scientific name otherwise, and it is never empty.
C16_NameFromFirstMatch ==
    \A r \in Req :
        (Matched(r) /\ "species" \in DOMAIN FirstMatch(r))
            => LET species == FirstMatch(r).species
               IN  /\ ResultServed(r)
                   /\ Response(r).body.result.name
                          = (IF "commonNames" \in DOMAIN species /\ species.commonNames # <<>>
                             THEN species.commonNames[1]
                             ELSE species.scientificNameWithoutAuthor)
                   /\ Response(r).body.result.name # ""

\* C17: when the payload has at least one match, result.description is the
\* description of the first match whenever it has one, and the fixed
\* "description unavailable" text only when it has none.
C17_DescriptionFromFirstMatch ==
    \A r \in Req :
        (Matched(r) /\ "species" \in DOMAIN FirstMatch(r))
            => LET species == FirstMatch(r).species
                   described == "description" \in DOMAIN species /\ species.description # ""
               IN  /\ ResultServed(r)
                   /\ described => Response(r).body.result.description = species.description
                   /\ Response(r).body.result.description = "Description unavailable"
                          => ~described

\* C18: when the payload has at least one match, result.image_url is the
\* medium-size URL of the first image of the first match if it has any image
\* and the empty string if it has none, and in both cases the answer is the
\* record built from that match: 200, success:true, no placeholder, no note.
C18_ImageUrlFromFirstMatch ==
    \A r \in Req :
        Matched(r)
            => LET first == FirstMatch(r)
                   pictured == "images" \in DOMAIN first /\ first.images # <<>>
               IN  /\ ResultServed(r)
                   /\ Response(r).body.success = TRUE
                   /\ "note" \notin DOMAIN Response(r).body
                   /\ Response(r).body.result \notin FixedPlaceholders
                   /\ Response(r).body.result.confidence = first.score
                   /\ (pictured /\ "url" \in DOMAIN first.images[1])
                          => Response(r).body.result.image_url = first.images[1].url.m
                   /\ ~pictured => Response(r).body.result.image_url = ""

====
